---- MODULE Spec2Model ----
(***************************************************************************)
(* AppInsightsQueryService (app-insights-query.service.ts): the builder of *)
(* the metric query batch and the reshaper of the metric response.         *)
(*                                                                         *)
(* A call of getPoolPerformance / getNodePerformance builds the batch with *)
(* _buildQuery and posts it (metrics(appId, query)): the batch is the      *)
(* request in flight.  When the executor answers, the map() callback runs  *)
(* _processMetrics on the answer and the observable emits the report, or   *)
(* errors with whatever _processMetrics threw.                             *)
(*                                                                         *)
(* JavaScript values are encoded as follows.  Strings are strings; the     *)
(* null node id is the value null below.  `PT${n}M` is the tuple           *)
(* <<"PT", n, "M">>.  undefined (a missing property, a missing number) is  *)
(* -1; averaged values, device ordinals and epoch milliseconds are         *)
(* naturals.  An object is the sequence of its own enumerable properties   *)
(* in the order Object.keys / for-in / JSON.stringify list them.           *)
(***************************************************************************)
EXTENDS Integers, Sequences, FiniteSets, TLC

\* Bounds of the model.
MaxWindow == 1000
MaxDevice == 1
MaxBuckets == 2
MaxSubAggregates == 3

\* JavaScript's undefined and null.
undefined == -1
null == "null"

\* The inputs of the public methods.
PoolIds == {"pool1", "pool2"}
NodeIds == {"", "node1"}
Windows == 0..MaxWindow

\* const metrics: StringMap<MetricDefinition>, in the order of the literal.
metrics ==
    << [key |-> "cpuUsage", appInsightsMetricId |-> "customMetrics/Cpu usage",
        segment |-> "cloud/roleInstance"],
       [key |-> "individualCpuUsage", appInsightsMetricId |-> "customMetrics/Cpu usage",
        segment |-> "customDimensions/[CPU #]"],
       [key |-> "gpuUsage", appInsightsMetricId |-> "customMetrics/Gpu usage",
        segment |-> "cloud/roleInstance"],
       [key |-> "individualGpuUsage", appInsightsMetricId |-> "customMetrics/Gpu usage",
        segment |-> "customDimensions/[GPU #]"],
       [key |-> "gpuMemory", appInsightsMetricId |-> "customMetrics/Gpu memory usage",
        segment |-> "cloud/roleInstance"],
       [key |-> "individualGpuMemory", appInsightsMetricId |-> "customMetrics/Gpu memory usage",
        segment |-> "customDimensions/[GPU #]"],
       [key |-> "memoryAvailable", appInsightsMetricId |-> "customMetrics/Memory available",
        segment |-> "cloud/roleInstance"],
       [key |-> "memoryUsed", appInsightsMetricId |-> "customMetrics/Memory used",
        segment |-> "cloud/roleInstance"],
       [key |-> "diskRead", appInsightsMetricId |-> "customMetrics/Disk read",
        segment |-> "cloud/roleInstance"],
       [key |-> "diskWrite", appInsightsMetricId |-> "customMetrics/Disk write",
        segment |-> "cloud/roleInstance"],
       [key |-> "diskUsed", appInsightsMetricId |-> "customMetrics/Disk usage",
        segment |-> "customDimensions/Disk,cloud/roleInstance"],
       [key |-> "diskFree", appInsightsMetricId |-> "customMetrics/Disk free",
        segment |-> "customDimensions/Disk,cloud/roleInstance"],
       [key |-> "networkRead", appInsightsMetricId |-> "customMetrics/Network read",
        segment |-> "cloud/roleInstance"],
       [key |-> "networkWrite", appInsightsMetricId |-> "customMetrics/Network write",
        segment |-> "cloud/roleInstance"] >>

\* Object.keys(metrics): no key is an array index, so the order is the literal's.
ObjectKeys == [i \in 1..Len(metrics) |-> metrics[i].key]

\* id in metrics
InMetrics(id) == \E i \in 1..Len(metrics) : metrics[i].key = id

\* metrics[id], for an id of the catalog.
MetricsAt(id) == metrics[CHOOSE i \in 1..Len(metrics) : metrics[i].key = id]

\* Math.ceil(n / d) for an integer n and a positive integer d.
MathCeil(n, d) == -((-n) \div d)

\* `PT${n}${unit}`
Duration(n, unit) == <<"PT", n, unit>>

\* const numberOfPoints = 1000;
numberOfPoints == 1000

\* top: 1000
top == 1000

\* _computeInterval with Math.floor for Math.ceil.
_computeInterval_floor(timespan) ==
    Duration(((timespan * 60) \div (numberOfPoints * 10)) * 10, "S")

\* _computeInterval with Math.round for Math.ceil.
_computeInterval_round(timespan) ==
    Duration(((2 * timespan * 60 + numberOfPoints * 10) \div (2 * numberOfPoints * 10)) * 10, "S")

\* _computeInterval without the snap to ten seconds: Math.ceil(timespan / numberOfPoints * 60).
_computeInterval_noSnap(timespan) ==
    Duration(MathCeil(timespan * 60, numberOfPoints), "S")

\* _computeInterval with the operands of the division swapped:
\* Math.ceil(numberOfPoints / timespan * 60 / 10) * 10 (for 0, Infinity, written 0).
_computeInterval_swapped(timespan) ==
    IF timespan = 0
    THEN Duration(0, "S")
    ELSE Duration(MathCeil(numberOfPoints * 60, timespan * 10) * 10, "S")

\* _computeInterval.  timespan / numberOfPoints * 60 / 10 is 3 * timespan / 500: a
\* whole number exactly when timespan is a multiple of 500, where each of the three
\* double operations is exact (k/2, 30k, 3k); otherwise it is at least 1/500 away
\* from a whole number, far more than the rounding error of three double
\* operations on windows of this size.  So Math.ceil of the double is the ceiling
\* of the exact quotient.
_computeInterval(timespan) ==
    LET intervalInSeconds == MathCeil(timespan * 60, numberOfPoints * 10) * 10
    IN  Duration(intervalInSeconds, "S")

\* FilterBuilder.prop(name).eq(value)
PropEq(name, value) == [op |-> "eq", prop |-> name, value |-> value]

\* FilterBuilder.and(left, right)
FilterAnd(left, right) == [op |-> "and", left |-> left, right |-> right]

\* Filter.toOData(): the filter written out as a sequence of tokens.
toOData(filter) ==
    LET clause(f) == <<f.prop, "eq", f.value>>
    IN  IF filter.op = "and"
        THEN clause(filter.left) \o <<"and">> \o clause(filter.right)
        ELSE clause(filter)

\* if (nodeId): null and "" are falsy.
Truthy(s) == s # null /\ s # ""

\* _buildFilter returning the node predicate in place of the pool predicate.
_buildFilter_replace(poolId, nodeId) ==
    IF Truthy(nodeId)
    THEN PropEq("cloud/roleInstance", nodeId)
    ELSE PropEq("cloud/roleName", poolId)

\* _buildFilter
_buildFilter(poolId, nodeId) ==
    LET poolFilter == PropEq("cloud/roleName", poolId)
    IN  IF Truthy(nodeId)
        THEN LET nodeFilter == PropEq("cloud/roleInstance", nodeId)
             IN  FilterAnd(poolFilter, nodeFilter)
        ELSE poolFilter

\* _buildQuery leaving out the metrics segmented by the node alone.
_buildQuery_segmentedOnly(poolId, nodeId, timespanInMinutes) ==
    LET kept == SelectSeq(metrics, LAMBDA m : m.segment # "cloud/roleInstance")
    IN  [i \in 1..Len(kept) |->
            [id |-> kept[i].key,
             parameters |->
                [aggregation |-> "avg",
                 metricId |-> kept[i].appInsightsMetricId,
                 filter |-> toOData(_buildFilter(poolId, nodeId)),
                 interval |-> _computeInterval(timespanInMinutes),
                 timespan |-> Duration(timespanInMinutes, "M"),
                 segment |-> kept[i].segment,
                 top |-> top]]]

\* _buildQuery
_buildQuery(poolId, nodeId, timespanInMinutes) ==
    LET timespan == Duration(timespanInMinutes, "M")
        interval == _computeInterval(timespanInMinutes)
    IN  [i \in 1..Len(ObjectKeys) |->
            LET id == ObjectKeys[i]
                metric == MetricsAt(id)
            IN  [id |-> id,
                 parameters |->
                    [aggregation |-> "avg",
                     metricId |-> metric.appInsightsMetricId,
                     filter |-> toOData(_buildFilter(poolId, nodeId)),
                     interval |-> interval,
                     timespan |-> timespan,
                     segment |-> metric.segment,
                     top |-> top]]]

\* The device ordinals a response may carry.
Devices == 0..MaxDevice

\* Every sequence of distinct members of S: the sub-aggregates of one bucket, one per
\* device present in it, in the order the response lists them.
RECURSIVE DeviceOrders(_)
DeviceOrders(S) ==
    {<<>>} \cup UNION {{<<d>> \o s : s \in DeviceOrders(S \ {d})} : d \in S}

\* segment.start and segment.end as epoch milliseconds (new Date(iso).getTime());
\* bucket b of a response is minute b of the window, the first bucket starting one
\* millisecond into its minute.
BucketStart(b) == IF b = 1 THEN 1 ELSE (b - 1) * 60000
BucketEnd(b) == b * 60000

\* The two switch labels' device keys.
DeviceKeyOf(id) ==
    IF id = "individualCpuUsage" THEN "customDimensions/CPU #" ELSE "customDimensions/GPU #"

\* The ids _processMetrics handles with _processIndividualDeviceUsage.
IndividualIds == {"individualCpuUsage", "individualGpuUsage", "individualGpuMemory"}

\* Ids of a response that take the default branch: two of the catalog and one that
\* is not in it.
FlatIds == {"cpuUsage", "diskUsed"}
UnknownId == "unknownMetric"

\* What a sub-aggregate of a response may lack: nothing, the property named by the
\* upstream metric id, that property's avg, or the device-dimension property.
DefectKinds == {"noMetric", "noAvg", "noDevice"}
NoDefect == [bucket |-> 0, pos |-> 0, kind |-> "none"]

\* An individualSegment: its metric property (metricId names it, "" when the object
\* has none; avg is its .avg) and its dimension property (deviceKey names it, ""
\* when the object has none).  Sub-aggregate j of bucket b averages to 10 b + j, so
\* that every sample of a report tells where it came from.
IndividualSegment(metricId, deviceKey, b, j, d, defect) ==
    LET hit == defect.bucket = b /\ defect.pos = j
    IN  [metricId |-> IF hit /\ defect.kind = "noMetric" THEN "" ELSE metricId,
         avg |-> IF hit /\ defect.kind = "noAvg" THEN undefined ELSE 10 * b + j,
         deviceKey |-> IF hit /\ defect.kind = "noDevice" THEN "" ELSE deviceKey,
         device |-> IF hit /\ defect.kind = "noDevice" THEN undefined ELSE d]

\* One entry of AppInsightsMetricsResult: bucket b holds a sub-aggregate for each
\* device of shape[b], in that order.
MetricResult(id, metricId, deviceKey, shape, defect) ==
    [id |-> id,
     body |-> [value |-> [segments |->
        [b \in 1..Len(shape) |->
            [start |-> BucketStart(b),
             end |-> BucketEnd(b),
             segments |-> [j \in 1..Len(shape[b]) |->
                IndividualSegment(metricId, deviceKey, b, j, shape[b][j], defect)]]]]]]

\* The number of sub-aggregates of a bucket layout.
RECURSIVE SubAggregates(_)
SubAggregates(shape) ==
    IF shape = <<>> THEN 0 ELSE Len(Head(shape)) + SubAggregates(Tail(shape))

\* The responses' bucket layouts: up to MaxBuckets buckets, with up to
\* MaxSubAggregates sub-aggregates in all.
Shapes ==
    {shape \in UNION {[1..n -> DeviceOrders(Devices)] : n \in 0..MaxBuckets} :
        SubAggregates(shape) <= MaxSubAggregates}

\* At most one sub-aggregate of an entry is malformed.
Defects(shape) ==
    {NoDefect} \cup
    UNION {{[bucket |-> b, pos |-> j, kind |-> k] :
                j \in 1..Len(shape[b]), k \in DefectKinds} : b \in 1..Len(shape)}

\* A default-branch entry: n buckets, each with the one sub-aggregate of the node.
FlatResult(id, n) ==
    MetricResult(id,
                 IF InMetrics(id) THEN MetricsAt(id).appInsightsMetricId
                                  ELSE "customMetrics/Unknown",
                 "cloud/roleInstance", [b \in 1..n |-> <<0>>], NoDefect)

\* An individual-device entry.
IndividualResult(id, shape, defect) ==
    MetricResult(id, MetricsAt(id).appInsightsMetricId, DeviceKeyOf(id), shape, defect)

\* An answer of the executor: the entry alone, or after a cpuUsage entry of one bucket.
Answer(entry, afterCpuUsage) ==
    IF afterCpuUsage /\ entry.id # "cpuUsage"
    THEN <<FlatResult("cpuUsage", 1), entry>>
    ELSE <<entry>>

\* _getDateAvg returning the start of the bucket.
_getDateAvg_start(start, end) == start

\* _getDateAvg: new Date(x) keeps the whole milliseconds of x (TimeClip), and epoch
\* milliseconds are not negative.
_getDateAvg(start, end) == (end + start) \div 2

\* _getAppInsightsMetricId
_getAppInsightsMetricId(id) == MetricsAt(id).appInsightsMetricId

\* deviceId in usages.  usages is the sequence of the object's properties, [key, value].
InUsages(usages, deviceId) == \E i \in 1..Len(usages) : usages[i].key = deviceId

\* usages[deviceId] = [] for a new key.  An own property whose key is an array index
\* ("0", "1", ...) is listed before every other property, in ascending numeric
\* order; the others ("undefined") follow in the order of their creation.
UsagesCreate(usages, deviceId) ==
    IF deviceId >= 0
    THEN LET n == Cardinality({i \in 1..Len(usages) :
                        usages[i].key >= 0 /\ usages[i].key < deviceId})
         IN  SubSeq(usages, 1, n) \o <<[key |-> deviceId, value |-> <<>>]>>
                \o SubSeq(usages, n + 1, Len(usages))
    ELSE Append(usages, [key |-> deviceId, value |-> <<>>])

\* usages[deviceId].push(sample)
UsagesPush(usages, deviceId, sample) ==
    [i \in 1..Len(usages) |->
        IF usages[i].key = deviceId
        THEN [key |-> deviceId, value |-> Append(usages[i].value, sample)]
        ELSE usages[i]]

\* The inner loop of _processIndividualDeviceUsage from sub-aggregate j on.  Reading
\* .avg of a missing metric property throws a TypeError; a missing avg or a missing
\* device property reads as undefined.
RECURSIVE IndividualSegmentLoop(_, _, _, _, _, _)
IndividualSegmentLoop(id, deviceKey, time, segments, j, usages) ==
    IF j > Len(segments)
    THEN [thrown |-> "none", usages |-> usages]
    ELSE LET individualSegment == segments[j]
         IN  IF individualSegment.metricId # _getAppInsightsMetricId(id)
             THEN [thrown |-> "TypeError", usages |-> usages]
             ELSE LET value == individualSegment.avg
                      deviceId == IF individualSegment.deviceKey = deviceKey
                                  THEN individualSegment.device
                                  ELSE undefined
                      created == IF InUsages(usages, deviceId)
                                 THEN usages
                                 ELSE UsagesCreate(usages, deviceId)
                  IN  IndividualSegmentLoop(id, deviceKey, time, segments, j + 1,
                        UsagesPush(created, deviceId, [time |-> time, value |-> value]))

\* The outer loop of _processIndividualDeviceUsage from bucket b on.
RECURSIVE SegmentLoop(_, _, _, _, _)
SegmentLoop(id, deviceKey, segments, b, usages) ==
    IF b > Len(segments)
    THEN [thrown |-> "none", usages |-> usages]
    ELSE LET segment == segments[b]
             time == _getDateAvg(segment.start, segment.end)
             inner == IndividualSegmentLoop(id, deviceKey, time, segment.segments, 1, usages)
         IN  IF inner.thrown # "none"
             THEN inner
             ELSE SegmentLoop(id, deviceKey, segments, b + 1, inner.usages)

\* _processIndividualDeviceUsage
_processIndividualDeviceUsage(id, deviceKey, segments) ==
    SegmentLoop(id, deviceKey, segments, 1, <<>>)

\* new AppInsightQueryResultProcessor(metric).process(segments): one sample per
\* bucket, at the bucket's midpoint, in response order.  What it does with an
\* undefined metric is not known: it throws (throws) or it processes the buckets.
process(known, segments, throws) ==
    IF ~known /\ throws
    THEN [thrown |-> "TypeError", series |-> <<>>]
    ELSE [thrown |-> "none",
          series |-> [b \in 1..Len(segments.segments) |->
                        [time |-> _getDateAvg(segments.segments[b].start,
                                              segments.segments[b].end),
                         value |-> segments.segments[b].segments[1].avg]]]

\* _processSegmentedMetric: metrics[metricId] is undefined for an id that is not a key.
_processSegmentedMetric(metricId, segments, throws) ==
    process(InMetrics(metricId), segments, throws)

\* performances[id] = value.  No id is an array index: a new property goes last.
PerformancesSet(perf, id, value) ==
    IF \E i \in 1..Len(perf) : perf[i].id = id
    THEN [i \in 1..Len(perf) |->
            IF perf[i].id = id THEN [id |-> id, value |-> value] ELSE perf[i]]
    ELSE Append(perf, [id |-> id, value |-> value])

\* The loop of _processMetrics from entry k on.  dispatched records, per entry, the
\* method the switch called.
RECURSIVE MetricResultLoop(_, _, _, _, _)
MetricResultLoop(results, k, perf, dispatched, throws) ==
    IF k > Len(results)
    THEN [thrown |-> "none", performances |-> perf, dispatched |-> dispatched]
    ELSE LET metricResult == results[k]
             id == metricResult.id
             segments == metricResult.body.value.segments
         IN  IF id \in IndividualIds
             THEN LET r == _processIndividualDeviceUsage(id, DeviceKeyOf(id), segments)
                      d == Append(dispatched,
                                  [id |-> id, method |-> "_processIndividualDeviceUsage"])
                  IN  IF r.thrown # "none"
                      THEN [thrown |-> r.thrown, performances |-> <<>>, dispatched |-> d]
                      ELSE MetricResultLoop(results, k + 1,
                                PerformancesSet(perf, id, r.usages), d, throws)
             ELSE LET r == _processSegmentedMetric(id, metricResult.body.value, throws)
                      d == Append(dispatched,
                                  [id |-> id, method |-> "_processSegmentedMetric"])
                  IN  IF r.thrown # "none"
                      THEN [thrown |-> r.thrown, performances |-> <<>>, dispatched |-> d]
                      ELSE MetricResultLoop(results, k + 1,
                                PerformancesSet(perf, id, r.series), d, throws)

\* _processMetrics
_processMetrics(results, throws) == MetricResultLoop(results, 1, <<>>, <<>>, throws)

VARIABLES
    call,          \* the public method called and its arguments
    request,       \* the query batch posted to the executor and not yet answered
    data,          \* the answer the executor delivered
    performances,  \* the report the observable emitted
    dispatched,    \* the processing method _processMetrics called for each entry
    error,         \* what the observable errored with
    phase          \* "idle", "sent" (batch posted), "emitted" or "errored"

vars == <<call, request, data, performances, dispatched, error, phase>>

NoCall == [method |-> "none", poolId |-> null, nodeId |-> null, lastNMinutes |-> 0]

\* The service holds no state: a behaviour follows one call from the fresh service.
Init ==
    /\ call = NoCall
    /\ request = <<>>
    /\ data = <<>>
    /\ performances = <<>>
    /\ dispatched = <<>>
    /\ error = "none"
    /\ phase = "idle"

\* getPoolPerformance up to the post of the batch.
getPoolPerformance(poolId, lastNMinutes) ==
    /\ phase = "idle"
    /\ call' = [method |-> "getPoolPerformance", poolId |-> poolId, nodeId |-> null,
                lastNMinutes |-> lastNMinutes]
    /\ request' = _buildQuery(poolId, null, lastNMinutes)
    /\ phase' = "sent"
    /\ UNCHANGED <<data, performances, dispatched, error>>

\* getNodePerformance up to the post of the batch.
getNodePerformance(poolId, nodeId, lastNMinutes) ==
    /\ phase = "idle"
    /\ call' = [method |-> "getNodePerformance", poolId |-> poolId, nodeId |-> nodeId,
                lastNMinutes |-> lastNMinutes]
    /\ request' = _buildQuery(poolId, nodeId, lastNMinutes)
    /\ phase' = "sent"
    /\ UNCHANGED <<data, performances, dispatched, error>>

\* The executor answers and the map() callback of the call runs _processMetrics.
Respond(answer, throws) ==
    /\ phase = "sent"
    /\ LET r == _processMetrics(answer, throws)
       IN  /\ data' = answer
           /\ performances' = r.performances
           /\ dispatched' = r.dispatched
           /\ error' = r.thrown
           /\ phase' = IF r.thrown = "none" THEN "emitted" ELSE "errored"
    /\ UNCHANGED <<call, request>>

NextQuery ==
    \/ \E p \in PoolIds, w \in Windows : getPoolPerformance(p, w)
    \/ \E p \in PoolIds, n \in NodeIds, w \in Windows : getNodePerformance(p, n, w)

RespondIndividual ==
    /\ phase = "sent"
    /\ \E id \in IndividualIds, shape \in Shapes, afterCpuUsage \in BOOLEAN :
          \E defect \in Defects(shape) :
             Respond(Answer(IndividualResult(id, shape, defect), afterCpuUsage), FALSE)

RespondFlat ==
    /\ phase = "sent"
    /\ \E id \in FlatIds \cup {UnknownId}, n \in 0..MaxBuckets,
          afterCpuUsage \in BOOLEAN, throws \in BOOLEAN :
             Respond(Answer(FlatResult(id, n), afterCpuUsage), throws)

NextReshape == RespondIndividual \/ RespondFlat

Next == NextQuery \/ NextReshape

\* The whole service.
Spec == Init /\ [][Next]_vars

\* The calls up to the post of the batch, for every window.
SpecQuery == Init /\ [][NextQuery]_vars

\* The state after getPoolPerformance("pool1", 60) posted its batch.
InitSent ==
    /\ call = [method |-> "getPoolPerformance", poolId |-> "pool1", nodeId |-> null,
               lastNMinutes |-> 60]
    /\ request = _buildQuery("pool1", null, 60)
    /\ data = <<>>
    /\ performances = <<>>
    /\ dispatched = <<>>
    /\ error = "none"
    /\ phase = "sent"

\* The answer to a posted batch, for every answer.
SpecReshape == InitSent /\ [][NextReshape]_vars

(***************************************************************************)
(* The query batch.                                                        *)
(***************************************************************************)

\* A call has built its batch.
Posted == phase = "sent" /\ call.method \in {"getPoolPerformance", "getNodePerformance"}

\* The seconds of descriptor i's interval.
IntervalSeconds(i) == request[i].parameters.interval[2]

\* C1: a call with a window of 0 minutes raises an error before any descriptor is
\* built: nothing is posted, and no descriptor with interval "PT0S" reaches the
\* executor.  (Any error is taken for the InvalidWindowError.)
C1_ZeroWindowRejected ==
    (call.method # "none" /\ call.lastNMinutes = 0) =>
        /\ error # "none"
        /\ request = <<>>

\* C2: for every window w > 0 the interval of the batch is "PT<n>S" with n a whole
\* number of seconds, a multiple of 10 and at least 10.
C2_IntervalMultipleOfTen ==
    (Posted /\ call.lastNMinutes > 0) =>
        \A i \in 1..Len(request) :
            /\ request[i].parameters.interval = Duration(IntervalSeconds(i), "S")
            /\ IntervalSeconds(i) \in Nat
            /\ IntervalSeconds(i) % 10 = 0
            /\ IntervalSeconds(i) >= 10

\* C2's case: a window just past a multiple of the step, snapped up to 20 seconds.
C2_Witness ==
    /\ Posted
    /\ call.lastNMinutes = 167
    /\ IntervalSeconds(1) = 20

\* C3: for every window w > 0 the buckets the query asks for, the w * 60 seconds of
\* the window cut into intervals, number at most 1000, which is the top of every
\* descriptor.
C3_BucketsWithinBudget ==
    (Posted /\ call.lastNMinutes > 0) =>
        \A i \in 1..Len(request) :
            /\ request[i].parameters.top = 1000
            /\ IntervalSeconds(i) > 0
            /\ MathCeil(call.lastNMinutes * 60, IntervalSeconds(i)) <= request[i].parameters.top

\* C3's case: a window that fills the budget exactly, 500 minutes in 30 s buckets.
C3_Witness ==
    /\ Posted
    /\ call.lastNMinutes = 500
    /\ IntervalSeconds(1) = 30
    /\ call.lastNMinutes * 60 = request[1].parameters.top * IntervalSeconds(1)

\* C8: for every pool, node and window w > 0 the batch holds one descriptor per
\* entry of metrics, in the order of metrics, each with the key, the upstream
\* metric id and the segment of its entry, top 1000 and aggregation "avg", and all
\* with the same interval, timespan and filter.
C8_OneDescriptorPerMetric ==
    (Posted /\ call.lastNMinutes > 0) =>
        /\ Len(request) = Len(metrics)
        /\ \A i \in 1..Len(request) :
            /\ request[i].id = metrics[i].key
            /\ request[i].parameters.metricId = metrics[i].appInsightsMetricId
            /\ request[i].parameters.segment = metrics[i].segment
            /\ request[i].parameters.top = 1000
            /\ request[i].parameters.aggregation = "avg"
            /\ request[i].parameters.interval = request[1].parameters.interval
            /\ request[i].parameters.timespan = request[1].parameters.timespan
            /\ request[i].parameters.timespan = Duration(call.lastNMinutes, "M")
            /\ request[i].parameters.filter = request[1].parameters.filter

\* C8's case: a node query of the fourteen metrics.
C8_Witness ==
    /\ Posted
    /\ call.method = "getNodePerformance"
    /\ call.nodeId = "node1"
    /\ call.lastNMinutes = 60
    /\ Len(request) = 14
    /\ request[14].id = "networkWrite"

\* C9: the interval does not decrease as the window grows: the interval of a
\* batch for window w2 is at least the interval computed for every window
\* 0 < w1 <= w2.
C9_IntervalMonotone ==
    (Posted /\ call.lastNMinutes > 0) =>
        \A w1 \in 1..call.lastNMinutes :
            _computeInterval(w1)[2] <= IntervalSeconds(1)

\* C9's case: a window whose interval is above that of a smaller window.
C9_Witness ==
    /\ Posted
    /\ call.lastNMinutes = 400
    /\ IntervalSeconds(1) = 30
    /\ _computeInterval(100)[2] = 10

\* C10: for every window w > 0 the interval is the reference
\* roundUpToMultipleOf10(ceil(w / 1000 * 60)) seconds, and the timespan is "PT<w>M".
C10_IntervalIsReference ==
    (Posted /\ call.lastNMinutes > 0) =>
        LET pointBudget == 1000
            seconds == MathCeil(call.lastNMinutes * 60, pointBudget)
            roundUpToMultipleOf10 == MathCeil(seconds, 10) * 10
        IN  \A i \in 1..Len(request) :
                /\ request[i].parameters.interval = <<"PT", roundUpToMultipleOf10, "S">>
                /\ request[i].parameters.timespan = <<"PT", call.lastNMinutes, "M">>

\* C10's case: buildPoolQuery("pool1", 100) gives "PT10S" and "PT100M".
C10_Witness ==
    /\ Posted
    /\ call = [method |-> "getPoolPerformance", poolId |-> "pool1", nodeId |-> null,
               lastNMinutes |-> 100]
    /\ request[1].parameters.interval = <<"PT", 10, "S">>
    /\ request[1].parameters.timespan = <<"PT", 100, "M">>

\* The filter of the batch is the serialisation of f in every descriptor.
FilterIs(f) == \A i \in 1..Len(request) : request[i].parameters.filter = toOData(f)

\* C6, as claimed: the filter of every node query is the AND of the pool predicate,
\* the one a pool query uses alone, and the node predicate, for every node id.
C6_NodeFilterAlwaysComposed ==
    Posted =>
        /\ call.method = "getPoolPerformance" =>
                FilterIs(PropEq("cloud/roleName", call.poolId))
        /\ call.method = "getNodePerformance" =>
                FilterIs(FilterAnd(PropEq("cloud/roleName", call.poolId),
                                   PropEq("cloud/roleInstance", call.nodeId)))

\* C6, amended: the filter of a node query with a non-empty node id is the AND of
\* the pool predicate, the one a pool query uses alone, and the node predicate; with
\* an empty node id it is the pool predicate alone.
C6_NodeFilterComposed ==
    Posted =>
        /\ call.method = "getPoolPerformance" =>
                FilterIs(PropEq("cloud/roleName", call.poolId))
        /\ (call.method = "getNodePerformance" /\ call.nodeId # "") =>
                FilterIs(FilterAnd(PropEq("cloud/roleName", call.poolId),
                                   PropEq("cloud/roleInstance", call.nodeId)))
        /\ (call.method = "getNodePerformance" /\ call.nodeId = "") =>
                FilterIs(PropEq("cloud/roleName", call.poolId))

\* C6's case: a node query of node1 in pool2.
C6_Witness ==
    /\ Posted
    /\ call.method = "getNodePerformance"
    /\ call.poolId = "pool2"
    /\ call.nodeId = "node1"
    /\ request[1].parameters.filter =
            <<"cloud/roleName", "eq", "pool2", "and", "cloud/roleInstance", "eq", "node1">>

(***************************************************************************)
(* The report.                                                             *)
(***************************************************************************)

\* The callback has run on the answer.
Answered == phase \in {"emitted", "errored"}

\* The report has a property id, and its value.
InReport(id) == \E i \in 1..Len(performances) : performances[i].id = id
ReportOf(id) == performances[CHOOSE i \in 1..Len(performances) : performances[i].id = id].value

\* The sub-aggregates of an entry's buckets from bucket b on, in response order,
\* each with the index of its bucket.
RECURSIVE Listed(_, _)
Listed(segments, b) ==
    IF b > Len(segments)
    THEN <<>>
    ELSE [j \in 1..Len(segments[b].segments) |->
            [bucket |-> b, sub |-> segments[b].segments[j]]] \o Listed(segments, b + 1)

\* The device ordinal a sub-aggregate of an entry id carries, undefined if none.
DeviceOf(id, sub) == IF sub.deviceKey = DeviceKeyOf(id) THEN sub.device ELSE undefined

\* A sub-aggregate of an entry id lacks an expected field.
Malformed(id, sub) ==
    \/ sub.metricId # MetricsAt(id).appInsightsMetricId
    \/ sub.avg = undefined
    \/ sub.deviceKey # DeviceKeyOf(id)

\* The sub-aggregates of device d in an entry, in response order.
ListedOf(id, segments, d) ==
    SelectSeq(Listed(segments, 1), LAMBDA x : DeviceOf(id, x.sub) = d)

\* The series of property key of a usages object.
SeriesOf(usages, key) == usages[CHOOSE i \in 1..Len(usages) : usages[i].key = key].value

\* C4: an answer with a sub-aggregate of an individual-device metric that lacks the
\* averaged value or the device dimension makes the reshape fail: no report is
\* returned and no sample is recorded under a placeholder key.  (Any error is taken
\* for the MalformedPayloadError.)
C4_MalformedBucketFails ==
    (/\ Answered
     /\ \E k \in 1..Len(data) :
            /\ data[k].id \in IndividualIds
            /\ \E x \in {Listed(data[k].body.value.segments, 1)[n] :
                            n \in 1..Len(Listed(data[k].body.value.segments, 1))} :
                    Malformed(data[k].id, x.sub))
    => /\ phase = "errored"
       /\ error # "none"
       /\ performances = <<>>

\* C5: an answer with an entry whose id is not a key of metrics makes the reshape
\* fail: the id is handed to neither processing method and is not in the report.
\* (Any error is taken for the ConfigurationError.)
C5_UnknownKeyRejected ==
    (Answered /\ \E k \in 1..Len(data) : ~InMetrics(data[k].id)) =>
        /\ phase = "errored"
        /\ error # "none"
        /\ \A i \in 1..Len(dispatched) : InMetrics(dispatched[i].id)
        /\ \A i \in 1..Len(performances) : InMetrics(performances[i].id)

\* C7, amended: in an emitted report the value of an individual-device entry has a
\* property for exactly the device ordinals of the entry's sub-aggregates; the
\* series of a device holds one sample for each bucket where the device appears
\* and none for the others, in response order, with the averaged value of that
\* sub-aggregate and, as time, the midpoint (start + end) / 2 of its bucket cut to
\* a whole millisecond; the device keys are listed in ascending numeric order.
C7_PerDeviceSeries ==
    phase = "emitted" =>
        \A k \in 1..Len(data) :
            data[k].id \in IndividualIds =>
                LET id == data[k].id
                    segments == data[k].body.value.segments
                    usages == ReportOf(id)
                    keys == {usages[i].key : i \in 1..Len(usages)}
                    midpoint(b) == (segments[b].start + segments[b].end) \div 2
                IN  /\ InReport(id)
                    /\ \A d \in Devices : d \in keys <=> ListedOf(id, segments, d) # <<>>
                    /\ \A d \in keys \cap Devices :
                        LET series == SeriesOf(usages, d)
                            listed == ListedOf(id, segments, d)
                        IN  /\ Len(series) = Len(listed)
                            /\ \A n \in 1..Len(series) :
                                /\ series[n].time = midpoint(listed[n].bucket)
                                /\ series[n].value = listed[n].sub.avg
                            /\ \A b \in 1..Len(segments) :
                                Cardinality({n \in 1..Len(series) : series[n].time = midpoint(b)})
                                    = IF \E j \in 1..Len(segments[b].segments) :
                                            DeviceOf(id, segments[b].segments[j]) = d
                                      THEN 1 ELSE 0
                    /\ \A i, j \in 1..Len(usages) :
                        (i < j /\ usages[i].key \in Devices /\ usages[j].key \in Devices)
                            => usages[i].key < usages[j].key

\* C7, as claimed, for the entries that lack no field: the same, with the exact
\* midpoint as time and the device keys listed in the order the devices are first
\* seen in the response.
C7_PerDeviceSeriesFirstSeenOrder ==
    phase = "emitted" =>
        \A k \in 1..Len(data) :
            (/\ data[k].id \in IndividualIds
             /\ \A n \in 1..Len(Listed(data[k].body.value.segments, 1)) :
                    ~Malformed(data[k].id, Listed(data[k].body.value.segments, 1)[n].sub))
            =>  LET id == data[k].id
                    segments == data[k].body.value.segments
                    usages == ReportOf(id)
                    keys == {usages[i].key : i \in 1..Len(usages)}
                    all == Listed(segments, 1)
                    firstSeen(d) == CHOOSE n \in 1..Len(all) :
                                        /\ DeviceOf(id, all[n].sub) = d
                                        /\ \A m \in 1..(n - 1) : DeviceOf(id, all[m].sub) # d
                IN  /\ InReport(id)
                    /\ \A d \in Devices : d \in keys <=> ListedOf(id, segments, d) # <<>>
                    /\ \A d \in keys :
                        LET series == SeriesOf(usages, d)
                            listed == ListedOf(id, segments, d)
                        IN  /\ Len(series) = Len(listed)
                            /\ \A n \in 1..Len(series) :
                                /\ 2 * series[n].time = segments[listed[n].bucket].start
                                                        + segments[listed[n].bucket].end
                                /\ series[n].value = listed[n].sub.avg
                    /\ \A i, j \in 1..Len(usages) :
                        i < j => firstSeen(usages[i].key) < firstSeen(usages[j].key)

\* C7's case: device 1 listed before device 0 in the first bucket and alone in the
\* second: device 0 has one sample, device 1 two, and key 0 is listed first.
C7_Witness ==
    /\ phase = "emitted"
    /\ Len(data) = 1
    /\ data[1].id = "individualGpuUsage"
    /\ Len(data[1].body.value.segments) = 2
    /\ [j \in 1..Len(data[1].body.value.segments[1].segments) |->
            data[1].body.value.segments[1].segments[j].device] = <<1, 0>>
    /\ [j \in 1..Len(data[1].body.value.segments[2].segments) |->
            data[1].body.value.segments[2].segments[j].device] = <<1>>
    /\ ReportOf("individualGpuUsage") =
            << [key |-> 0, value |-> <<[time |-> 30000, value |-> 12]>>],
               [key |-> 1, value |-> <<[time |-> 30000, value |-> 11],
                                       [time |-> 90000, value |-> 21]>>] >>

====
